---- MODULE Spec2Model ----
\* A model of src/Amazon/etl/finnhub_etl_elasticsearch.py: the straight-line
\* ETL job (resolve an Elasticsearch client, make sure the index exists, fetch
\* daily candles per symbol, derive columns, bulk-load documents).
\*
\* Numbers are exact rationals <<num, den>>; a missing value (NaN / NaT / None)
\* is the empty tuple. Library calls that can fail (the client constructor,
\* info(), indices.exists(), indices.create(), requests.get(), helpers.bulk())
\* are inputs: every step draws their outcome from a small set.
EXTENDS Integers, Sequences, FiniteSets, TLC

VARIABLES
    ES_HOST, ES_USERNAME, ES_PASSWORD, \* whether each environment value is set
    ELASTICSEARCH_CONFIGS,             \* the candidate list, by description
    es,                                \* the client held: a candidate, or "None"
    pc,                                \* position in the script
    i,                                 \* enumerate() index of the resolver loop
    attempts,                          \* what the resolver did, per candidate
    adopted,                           \* the candidate the loop broke on
    calls,                             \* index / HTTP / bulk calls after the resolver
    k,                                 \* index of the symbol being fetched
    df_list,                           \* one frame per successfully fetched symbol
    df_raw,                            \* df as built at lines 186-211
    sampled,                           \* whether the sample branch (line 187) ran
    df,                                \* df after dropna (line 223)
    bulks,                             \* the action lists handed to helpers.bulk
    load_result,                       \* how the load ended
    exit_code,                         \* -1 while running
    fill_pad                           \* pandas' pct_change pads NaN (pandas < 3)

vars == <<ES_HOST, ES_USERNAME, ES_PASSWORD, ELASTICSEARCH_CONFIGS, es, pc, i,
          attempts, adopted, calls, k, df_list, df_raw, sampled, df, bulks,
          load_result, exit_code, fill_pad>>

-----------------------------------------------------------------------------
\* Bounds of the model.

\* The longest time series a market-data response carries.
MaxPoints == 2

\* The day number standing for datetime.now().
NowDay == 40

-----------------------------------------------------------------------------
\* Program constants.

index_name == "finnhub_stocks"

symbols == <<"AAPL", "TSLA", "MSFT", "GOOGL", "AMZN">>

\* range(30): rows of sample data per symbol.
SampleDays == 30

EnvConfig == "Environment config"

LocalConfig == "Local Elasticsearch (fallback)"

-----------------------------------------------------------------------------
\* Values.

NaN == << >>

Num(n) == <<n, 1>>

notna(x) == x # NaN

Abs(n) == IF n < 0 THEN -n ELSE n

RECURSIVE GCD(_, _)
GCD(a, b) == IF b = 0 THEN a ELSE GCD(b, a % b)

\* n / d for d > 0, in lowest terms.
Ratio(n, d) == LET g == GCD(Abs(n), d) IN <<n \div g, d \div g>>

Inf == <<1, 0>>

\* Series / Series as numpy divides floats: NaN propagates, x/0 is inf, 0/0 NaN.
Div(a, b) ==
    IF a = NaN \/ b = NaN THEN NaN
    ELSE IF b[1] = 0 THEN (IF a[1] = 0 THEN NaN ELSE Inf)
    ELSE <<a[1] * b[2], a[2] * b[1]>>

Normal(q) == IF q = NaN \/ q[2] = 0 THEN q ELSE Ratio(q[1], q[2])

Minus1(q) == IF q = NaN \/ q[2] = 0 THEN q ELSE <<q[1] - q[2], q[2]>>

-----------------------------------------------------------------------------
\* Connection resolver (lines 22-108).

BuildConfigs(host, user, pass) ==
    (IF host /\ user /\ pass THEN <<EnvConfig>> ELSE << >>) \o <<LocalConfig>>

CtorOutcomes == {"ok", "throws"}

InfoOutcomes == {"ok", "unauthorized", "error"}

ProbeOutcomes == {"ok", "fails"}

\* line 70: the secondary probe runs only for an authorization-class failure.
\* (variant: the probe after any info() failure)
ProbeNeededAlways(info) == info # "ok"
ProbeNeeded(info) == info = "unauthorized"

\* lines 67-82: whether the loop reaches the break at line 82.
Adopts(infoRes, probeRes) ==
    \/ infoRes = "ok"
    \/ infoRes = "unauthorized" /\ probeRes = "ok"

\* lines 58 and 82: the loop is left on break or after the last candidate.
\* (variant: no break after a successful health check)
LoopExitNoBreak(adopt, n) == n >= Len(ELASTICSEARCH_CONFIGS)
LoopExit(adopt, n) == adopt \/ n >= Len(ELASTICSEARCH_CONFIGS)

TryCandidate ==
    /\ pc = "resolve"
    /\ i <= Len(ELASTICSEARCH_CONFIGS)
    /\ \E ctor \in CtorOutcomes, info \in InfoOutcomes, probe \in ProbeOutcomes :
         LET cand == ELASTICSEARCH_CONFIGS[i]
             infoRes == IF ctor = "ok" THEN info ELSE "not_called"
             probeRes == IF ctor = "ok" /\ infoRes # "ok" /\ ProbeNeeded(infoRes)
                         THEN probe ELSE "not_called"
             adopt == ctor = "ok" /\ Adopts(infoRes, probeRes)
         IN  /\ es' = IF ctor = "ok" THEN cand ELSE es
             /\ attempts' = Append(attempts,
                    [cand |-> cand, ctor |-> ctor, info |-> infoRes, probe |-> probeRes])
             /\ adopted' = IF adopt THEN cand ELSE adopted
             /\ i' = i + 1
             /\ pc' = IF LoopExit(adopt, i) THEN "check" ELSE "resolve"
    /\ UNCHANGED <<ES_HOST, ES_USERNAME, ES_PASSWORD, ELASTICSEARCH_CONFIGS, calls,
                   k, df_list, df_raw, sampled, df, bulks, load_result, exit_code,
                   fill_pad>>

\* line 88
ClientMissing == es = "None"

CheckClient ==
    /\ pc = "check"
    /\ IF ClientMissing
       THEN pc' = "exit" /\ exit_code' = 1
       ELSE pc' = "schema" /\ exit_code' = exit_code
    /\ UNCHANGED <<ES_HOST, ES_USERNAME, ES_PASSWORD, ELASTICSEARCH_CONFIGS, es, i,
                   attempts, adopted, calls, k, df_list, df_raw, sampled, df, bulks,
                   load_result, fill_pad>>

-----------------------------------------------------------------------------
\* Schema initializer (lines 110-143).

Call(op, arg, res) == [op |-> op, arg |-> arg, res |-> res]

ExistsOutcomes == {"true", "false", "raises"}

CreateOutcomes == {"ok", "raises"}

\* lines 136-139
\* (variant: create unless the existence check raised)
CreateNeededUnlessRaised(exists) == exists # "raises"
CreateNeeded(exists) == exists = "false"

InitSchema ==
    /\ pc = "schema"
    /\ \E exists \in ExistsOutcomes, create \in CreateOutcomes :
         calls' = calls \o <<Call("exists", index_name, exists)>>
                        \o (IF CreateNeeded(exists)
                            THEN <<Call("create", index_name, create)>> ELSE << >>)
    /\ pc' = "fetch"
    /\ UNCHANGED <<ES_HOST, ES_USERNAME, ES_PASSWORD, ELASTICSEARCH_CONFIGS, es, i,
                   attempts, adopted, k, df_list, df_raw, sampled, df, bulks,
                   load_result, exit_code, fill_pad>>

-----------------------------------------------------------------------------
\* Data fetcher (lines 145-211).

\* A market-data response: requests.get / response.json() raised, or a JSON body
\* with status s and parallel arrays t, c, v (null entries are NaN).
Response(raises, s, t, c, v) == [raises |-> raises, s |-> s, t |-> t, c |-> c, v |-> v]

Raised == Response(TRUE, "", << >>, << >>, << >>)

NoData == Response(FALSE, "no_data", << >>, << >>, << >>)

PlainOk == Response(FALSE, "ok", <<Num(1), Num(2)>>, <<Num(150), Num(150)>>,
                    <<Num(100), Num(150)>>)

\* The responses of the whole-pipeline specification.
PipelineFeed == {NoData, PlainOk}

\* Status "ok" with an empty time series.
EmptyOk == Response(FALSE, "ok", << >>, << >>, << >>)

\* The responses of the fetch specification.
CoarseFeed == {Raised, NoData, EmptyOk, PlainOk}

Closes == {NaN, Num(150)}

Volumes == {NaN, Num(0), Num(100), Num(150), Num(1000000)}

\* Timestamps of n points: ascending, descending, or ascending with a null first.
TimePatterns(n) ==
    { [j \in 1..n |-> Num(j)],
      [j \in 1..n |-> Num(n + 1 - j)],
      [j \in 1..n |-> IF j = 1 THEN NaN ELSE Num(j)] }

RichFeed ==
    {Raised, NoData} \cup
    UNION { { Response(FALSE, "ok", t, c, v) :
                t \in TimePatterns(n), c \in [1..n -> Closes], v \in [1..n -> Volumes] } :
            n \in 0..MaxPoints }

\* The responses of the data specification: the symbols before the last two
\* have no data, the last but one answers coarsely, the last one richly.
DataFeed(n) ==
    IF n + 2 <= Len(symbols) THEN {NoData}
    ELSE IF n < Len(symbols) THEN CoarseFeed
    ELSE RichFeed

\* What a request's answer was, for the call log.
Answer(data) ==
    IF data.raises THEN "raises"
    ELSE IF data.s = "ok" /\ Len(data.t) = 0 THEN "ok_empty"
    ELSE data.s

\* line 159
\* (variant: the status alone decides)
FetchOkStatusOnly(data) == data.s = "ok"
FetchOk(data) == data.s = "ok" /\ data.t # << >>

\* Series.ffill(): the last value present at or before j.
RECURSIVE FFill(_, _)
FFill(col, j) ==
    IF j = 0 THEN NaN
    ELSE IF notna(col[j]) THEN col[j]
    ELSE FFill(col, j - 1)

\* line 170: Series.pct_change() in row order; pandas before 3.0 pads NaN first.
\* (variant: the change is taken from the first row, not the preceding one)
PctChangeFromFirst(col, pad, j) ==
    LET at(m) == IF pad THEN FFill(col, m) ELSE col[m]
    IN  Normal(Minus1(Div(at(j), at(1))))
PctChange(col, pad, j) ==
    LET at(m) == IF pad THEN FFill(col, m) ELSE col[m]
    IN  IF j = 1 THEN NaN ELSE Normal(Minus1(Div(at(j), at(j - 1))))

\* line 174: close / volume.replace(0, np.nan)
\* (variant: no replace(0, np.nan))
PricePerVolumeNoReplace(close, volume) == Normal(Div(close, volume))
PricePerVolume(close, volume) ==
    Normal(Div(close, IF volume = Num(0) THEN NaN ELSE volume))

\* lines 160-175: temp_df of one symbol.
BuildFrame(symbol, data) ==
    [j \in 1..Len(data.t) |->
        [symbol |-> <<symbol>>,
         timestamp |-> data.t[j],
         close |-> data.c[j],
         volume |-> data.v[j],
         volume_change |-> PctChange(data.v, fill_pad, j),
         price_per_volume |-> PricePerVolume(data.c[j], data.v[j])]]

\* lines 151-183: one iteration of the per-symbol loop.
FetchSymbol(feed) ==
    /\ pc = "fetch"
    /\ k <= Len(symbols)
    /\ \E data \in feed :
         /\ calls' = Append(calls, Call("get", symbols[k], Answer(data)))
         /\ df_list' = IF ~data.raises /\ FetchOk(data)
                       THEN Append(df_list, BuildFrame(symbols[k], data))
                       ELSE df_list
    /\ k' = k + 1
    /\ pc' = IF k = Len(symbols) THEN "assemble" ELSE "fetch"
    /\ UNCHANGED <<ES_HOST, ES_USERNAME, ES_PASSWORD, ELASTICSEARCH_CONFIGS, es, i,
                   attempts, adopted, df_raw, sampled, df, bulks, load_result,
                   exit_code, fill_pad>>

Fetch == FetchSymbol(PipelineFeed)

FetchCoarse == FetchSymbol(CoarseFeed)

FetchData == FetchSymbol(DataFeed(k))

\* One run's random draws for a sample row (lines 196-207): close in [100, 200),
\* volume in [1000000, 10000000), volume_change in [-0.5, 0.5),
\* price_per_volume in [0.00001, 0.0001).
SampleDraws ==
    { [close |-> Num(150), volume |-> Num(1000000),
       volume_change |-> <<1, 4>>, price_per_volume |-> <<1, 20000>>],
      [close |-> Num(100), volume |-> Num(2000000),
       volume_change |-> <<-1, 4>>, price_per_volume |-> <<1, 20000>>] }

\* lines 189-209: SampleDays rows per symbol, newest first.
SampleData(draw) ==
    [n \in 1..(Len(symbols) * SampleDays) |->
        LET s == symbols[((n - 1) \div SampleDays) + 1]
            d == (n - 1) % SampleDays
        IN  [symbol |-> <<s>>,
             timestamp |-> Num(NowDay - d),
             close |-> draw.close,
             volume |-> draw.volume,
             volume_change |-> draw.volume_change,
             price_per_volume |-> draw.price_per_volume]]

RECURSIVE Concat(_)
Concat(frames) ==
    IF frames = << >> THEN << >> ELSE Head(frames) \o Concat(Tail(frames))

\* line 186
NoDataFetched == df_list = << >>

\* lines 186-211
Assemble ==
    /\ pc = "assemble"
    /\ IF NoDataFetched
       THEN /\ \E draw \in SampleDraws : df_raw' = SampleData(draw)
            /\ sampled' = TRUE
       ELSE /\ df_raw' = Concat(df_list)
            /\ sampled' = FALSE
    /\ pc' = "transform"
    /\ UNCHANGED <<ES_HOST, ES_USERNAME, ES_PASSWORD, ELASTICSEARCH_CONFIGS, es, i,
                   attempts, adopted, calls, k, df_list, df, bulks, load_result,
                   exit_code, fill_pad>>

-----------------------------------------------------------------------------
\* Transformer (lines 222-223).

\* line 223: the dropna subset.
\* (variant: volume left out of the subset)
RequiredNoVolume == {"timestamp", "symbol", "close"}
Required == {"timestamp", "symbol", "close", "volume"}

dropna(frame, subset) ==
    SelectSeq(frame, LAMBDA row : \A f \in subset : notna(row[f]))

Transform ==
    /\ pc = "transform"
    /\ df' = dropna(df_raw, Required)
    /\ pc' = "load"
    /\ UNCHANGED <<ES_HOST, ES_USERNAME, ES_PASSWORD, ELASTICSEARCH_CONFIGS, es, i,
                   attempts, adopted, calls, k, df_list, df_raw, sampled, bulks,
                   load_result, exit_code, fill_pad>>

-----------------------------------------------------------------------------
\* Bulk loader (lines 229-293).

NoFields == [f \in {} |-> NaN]

\* lines 247-260: an optional field is added when the column exists and is not NaN.
Optional(row, f) ==
    IF f \in DOMAIN row /\ notna(row[f]) THEN f :> row[f] ELSE NoFields

\* lines 232-260: the _source of one row's document.
Document(row) ==
    [timestamp |-> row.timestamp, symbol |-> row.symbol[1],
     close |-> row.close, volume |-> row.volume]
    @@ Optional(row, "volume_change")
    @@ Optional(row, "price_per_volume")

\* lines 229-265
generate_actions(frame) == [n \in 1..Len(frame) |-> Document(frame[n])]

\* lines 278-287
sample_df ==
    << [timestamp |-> Num(NowDay), symbol |-> <<"AAPL">>,
        close |-> Num(150), volume |-> Num(1000000)] >>

BulkOutcomes == {"ok", "raises"}

\* line 273: the fallback runs when the first bulk raised.
\* (variant: the fallback runs after every first bulk)
FallbackNeededAlways(res) == TRUE
FallbackNeeded(res) == res = "raises"

\* lines 267-274
Load ==
    /\ pc = "load"
    /\ \E res \in BulkOutcomes :
         /\ calls' = Append(calls, Call("bulk", index_name, res))
         /\ IF FallbackNeeded(res)
            THEN pc' = "fallback" /\ load_result' = load_result
                 /\ exit_code' = exit_code
            ELSE pc' = "done" /\ load_result' = "loaded" /\ exit_code' = 0
    /\ bulks' = Append(bulks, generate_actions(df))
    /\ UNCHANGED <<ES_HOST, ES_USERNAME, ES_PASSWORD, ELASTICSEARCH_CONFIGS, es, i,
                   attempts, adopted, k, df_list, df_raw, sampled, df, fill_pad>>

\* lines 275-293
LoadFallback ==
    /\ pc = "fallback"
    /\ \E res \in BulkOutcomes :
         /\ calls' = Append(calls, Call("bulk", index_name, res))
         /\ load_result' = IF res = "ok" THEN "sample_loaded" ELSE "failed"
    /\ bulks' = Append(bulks, generate_actions(sample_df))
    /\ pc' = "done"
    /\ exit_code' = 0
    /\ UNCHANGED <<ES_HOST, ES_USERNAME, ES_PASSWORD, ELASTICSEARCH_CONFIGS, es, i,
                   attempts, adopted, k, df_list, df_raw, sampled, df, fill_pad>>

-----------------------------------------------------------------------------
\* Specifications.

\* The state at line 58: environment read, candidate list built, es = None.
Init ==
    /\ ES_HOST \in BOOLEAN
    /\ ES_USERNAME \in BOOLEAN
    /\ ES_PASSWORD \in BOOLEAN
    /\ ELASTICSEARCH_CONFIGS = BuildConfigs(ES_HOST, ES_USERNAME, ES_PASSWORD)
    /\ es = "None"
    /\ pc = "resolve"
    /\ i = 1
    /\ attempts = << >>
    /\ adopted = "None"
    /\ calls = << >>
    /\ k = 1
    /\ df_list = << >>
    /\ df_raw = << >>
    /\ sampled = FALSE
    /\ df = << >>
    /\ bulks = << >>
    /\ load_result = "none"
    /\ exit_code = -1
    /\ fill_pad \in BOOLEAN

Next ==
    \/ TryCandidate
    \/ CheckClient
    \/ InitSchema
    \/ Fetch
    \/ Assemble
    \/ Transform
    \/ Load
    \/ LoadFallback

Spec == Init /\ [][Next]_vars

\* The state at line 150 of a run with no environment configuration whose local
\* candidate answered info() and whose index was found present.
InitData ==
    /\ ES_HOST = FALSE
    /\ ES_USERNAME = FALSE
    /\ ES_PASSWORD = FALSE
    /\ ELASTICSEARCH_CONFIGS = BuildConfigs(ES_HOST, ES_USERNAME, ES_PASSWORD)
    /\ es = LocalConfig
    /\ pc = "fetch"
    /\ i = 2
    /\ attempts = <<[cand |-> LocalConfig, ctor |-> "ok", info |-> "ok",
                     probe |-> "not_called"]>>
    /\ adopted = LocalConfig
    /\ calls = <<Call("exists", index_name, "true")>>
    /\ k = 1
    /\ df_list = << >>
    /\ df_raw = << >>
    /\ sampled = FALSE
    /\ df = << >>
    /\ bulks = << >>
    /\ load_result = "none"
    /\ exit_code = -1
    /\ fill_pad \in BOOLEAN

NextData ==
    \/ FetchData
    \/ Assemble
    \/ Transform
    \/ Load
    \/ LoadFallback

DataSpec == InitData /\ [][NextData]_vars

NextFetch ==
    \/ FetchCoarse
    \/ Assemble
    \/ Transform
    \/ Load
    \/ LoadFallback

FetchSpec == InitData /\ [][NextFetch]_vars

-----------------------------------------------------------------------------
\* Properties: connection resolver.

CallsOf(op) == SelectSeq(calls, LAMBDA c : c.op = op)

\* A candidate's health check succeeded: info() answered, or it failed as
\* unauthorized and the index-existence probe answered.
HealthOk(a) == a.info = "ok" \/ (a.info = "unauthorized" /\ a.probe = "ok")

ResolverDone == pc # "resolve"

AllCandidatesFailed ==
    /\ ResolverDone
    /\ \A n \in 1..Len(attempts) : ~HealthOk(attempts[n])

\* C1: when every candidate fails its health check the run exits non-zero
\* before the schema, fetch and load steps: no index call on the target index,
\* no market-data request and no bulk submission is made.
C1_AllFailedExitsBeforeWork ==
    AllCandidatesFailed =>
        /\ pc \in {"check", "exit"}
        /\ calls = << >>
        /\ bulks = << >>
        /\ (pc = "exit" => exit_code = 1)

\* C4: candidates are tried in list order (environment configuration first when
\* host, username and password are all set, local fallback last), each at most
\* once; the first candidate whose health check succeeds is adopted, none is
\* tried after it, and the client held afterwards is the adopted candidate's.
C4_ResolverOrderAndAdoption ==
    /\ ELASTICSEARCH_CONFIGS =
         IF ES_HOST /\ ES_USERNAME /\ ES_PASSWORD
         THEN <<EnvConfig, LocalConfig>> ELSE <<LocalConfig>>
    /\ Len(attempts) <= Len(ELASTICSEARCH_CONFIGS)
    /\ \A n \in 1..Len(attempts) :
         /\ attempts[n].cand = ELASTICSEARCH_CONFIGS[n]
         /\ HealthOk(attempts[n]) =>
              /\ n = Len(attempts)
              /\ adopted = attempts[n].cand
    /\ adopted # "None" =>
         /\ es = adopted
         /\ HealthOk(attempts[Len(attempts)])
         /\ attempts[Len(attempts)].cand = adopted
    /\ (ResolverDone /\ adopted = "None") =>
         Len(attempts) = Len(ELASTICSEARCH_CONFIGS)

C4_Witness ==
    /\ pc = "done"
    /\ Len(attempts) = 2
    /\ ~HealthOk(attempts[1])
    /\ adopted = LocalConfig
    /\ es = LocalConfig
    /\ Len(bulks) >= 1

-----------------------------------------------------------------------------
\* Properties: stages.

\* The stage of the spec's state machine the run is in.
Stage ==
    CASE pc \in {"resolve", "check", "schema"} ->
            IF adopted = "None" THEN "Unconnected" ELSE "Connected"
      [] pc = "exit" -> "Unconnected"
      [] pc \in {"fetch", "assemble"} -> "SchemaReady"
      [] pc = "transform" -> IF sampled THEN "SampleSynthesized" ELSE "DataFetched"
      [] pc \in {"load", "fallback"} -> "Transformed"
      [] pc = "done" -> IF load_result = "failed" THEN "LoadFailed" ELSE "Loaded"

Rank(stage) ==
    CASE stage = "Unconnected" -> 0
      [] stage = "Connected" -> 1
      [] stage = "SchemaReady" -> 2
      [] stage \in {"DataFetched", "SampleSynthesized"} -> 3
      [] stage = "Transformed" -> 4
      [] stage \in {"Loaded", "LoadFailed"} -> 5

Terminated == pc \in {"done", "exit"}

\* C3: a run moves through Unconnected, Connected, SchemaReady, DataFetched or
\* SampleSynthesized, Transformed, Loaded or LoadFailed in that order, never
\* back and never skipping a stage, and it ends only in Loaded, in LoadFailed,
\* or by exiting while Unconnected.
C3_StagesInOrder ==
    [][ /\ Rank(Stage') \in {Rank(Stage), Rank(Stage) + 1}
        /\ Terminated' => Stage' \in {"Loaded", "LoadFailed", "Unconnected"} ]_vars

-----------------------------------------------------------------------------
\* Properties: schema initializer.

PastSchema == pc \in {"fetch", "assemble", "transform", "load", "fallback", "done"}

\* C7: the create-index call for the fixed index is made only when the
\* existence check reports the index absent, never when it reports it present;
\* a failing existence check or create call does not abort the run, which goes
\* on to the fetch stage.
C7_CreateOnlyIfAbsent ==
    LET ex == CallsOf("exists")
        cr == CallsOf("create")
    IN  /\ Len(ex) <= 1
        /\ Len(cr) <= 1
        /\ \A n \in 1..Len(ex) : ex[n].arg = index_name
        /\ \A n \in 1..Len(cr) : cr[n].arg = index_name
        /\ Len(cr) = 1 => (Len(ex) = 1 /\ ex[1].res = "false" /\ calls[2] = cr[1])
        /\ (Len(ex) = 1 /\ ex[1].res = "false") => Len(cr) = 1
        /\ Len(ex) = 1 => (PastSchema /\ exit_code # 1)
        /\ (pc = "done" /\ Len(ex) = 1) => Len(CallsOf("get")) = Len(symbols)

C7_Witness ==
    /\ pc = "done"
    /\ Len(calls) >= 2
    /\ calls[1] = Call("exists", index_name, "false")
    /\ calls[2] = Call("create", index_name, "raises")

-----------------------------------------------------------------------------
\* Properties: bulk loader.

\* The document of the fallback's one synthetic row.
SmokeDocument ==
    [timestamp |-> Num(NowDay), symbol |-> "AAPL", close |-> Num(150),
     volume |-> Num(1000000)]

\* C2: when the bulk submission of the transformed rows throws, exactly one
\* fallback submission is made, carrying exactly one synthetic document; if it
\* throws too nothing more is submitted and the run ends. When the first
\* submission does not throw there is no fallback submission.
C2_OneFallbackSubmission ==
    LET bk == CallsOf("bulk")
    IN  /\ Len(bk) = Len(bulks)
        /\ Len(bulks) <= 2
        /\ pc = "fallback" => (Len(bk) = 1 /\ bk[1].res = "raises")
        /\ Len(bulks) = 2 => (bk[1].res = "raises" /\ pc = "done")
        /\ (pc = "done" /\ bk[1].res = "raises") =>
              /\ Len(bulks) = 2
              /\ bulks[2] = <<SmokeDocument>>
              /\ load_result = IF bk[2].res = "ok" THEN "sample_loaded" ELSE "failed"
        /\ (pc = "done" /\ bk[1].res = "ok") =>
              /\ Len(bulks) = 1
              /\ load_result = "loaded"
        /\ pc = "done" => calls[Len(calls)].op = "bulk"

C2_Witness ==
    /\ pc = "done"
    /\ Len(bulks) = 2
    /\ Len(bulks[2]) = 1
    /\ CallsOf("bulk")[1].res = "raises"
    /\ CallsOf("bulk")[2].res = "raises"
    /\ load_result = "failed"

-----------------------------------------------------------------------------
\* Properties: data fetcher.

Assembled == pc \in {"transform", "load", "fallback", "done"}

\* The positions of the requests that were answered "ok" with a time series.
Succeeded == { n \in 1..Len(CallsOf("get")) : CallsOf("get")[n].res = "ok" }

RowsOf(frame, symbol) == { n \in 1..Len(frame) : frame[n].symbol = <<symbol>> }

SymbolsOf(frame) == { frame[n].symbol[1] : n \in 1..Len(frame) }

\* C6: sample rows are produced exactly when no symbol was fetched
\* successfully, and then 30 rows for each symbol of the list; otherwise the
\* dataset holds rows of the successfully fetched symbols only. A symbol whose
\* request raised or came back not "ok" adds no rows, is requested once, and
\* the symbols after it are still requested.
C6_SampleIffNothingFetched ==
    LET gets == CallsOf("get")
    IN  /\ Len(gets) <= Len(symbols)
        /\ \A n \in 1..Len(gets) : gets[n].arg = symbols[n]
        /\ pc # "fetch" => Len(gets) = Len(symbols)
        /\ Len(df_list) = Cardinality(Succeeded)
        /\ Assembled =>
              /\ sampled <=> Succeeded = {}
              /\ sampled =>
                    /\ Len(df_raw) = SampleDays * Len(symbols)
                    /\ \A n \in 1..Len(symbols) :
                          Cardinality(RowsOf(df_raw, symbols[n])) = SampleDays
              /\ ~sampled =>
                    /\ SymbolsOf(df_raw) = { gets[n].arg : n \in Succeeded }
                    /\ \A n \in 1..Len(gets) :
                          gets[n].res # "ok" => RowsOf(df_raw, gets[n].arg) = {}

C6_Witness ==
    /\ pc = "done"
    /\ sampled
    /\ Len(df_raw) = SampleDays * Len(symbols)
    /\ CallsOf("get")[1].res = "raises"
    /\ CallsOf("get")[2].res = "no_data"
    /\ CallsOf("get")[3].res = "ok_empty"
    /\ Len(bulks[1]) = Len(df_raw)

-----------------------------------------------------------------------------
\* Properties: transformer and documents.

\* A row in which timestamp, symbol, close and volume are all present.
Complete(row) ==
    /\ row.timestamp # NaN
    /\ row.symbol # NaN
    /\ row.close # NaN
    /\ row.volume # NaN

CompleteRows == SelectSeq(df_raw, Complete)

MainBulkMade == Len(bulks) >= 1

\* C8: a row missing symbol, close, volume or timestamp yields no document in
\* the main bulk load, and every row with all four present yields exactly one.
C8_IncompleteRowsExcluded ==
    MainBulkMade =>
        /\ Len(bulks[1]) = Len(CompleteRows)
        /\ \A n \in 1..Len(CompleteRows) :
              /\ bulks[1][n].symbol = CompleteRows[n].symbol[1]
              /\ bulks[1][n].timestamp = CompleteRows[n].timestamp
              /\ bulks[1][n].close = CompleteRows[n].close
              /\ bulks[1][n].volume = CompleteRows[n].volume

C8_Witness ==
    /\ MainBulkMade
    /\ ~sampled
    /\ \E n \in 1..Len(df_raw) :
          /\ df_raw[n].volume = NaN
          /\ df_raw[n].timestamp # NaN
          /\ df_raw[n].close # NaN
    /\ Len(bulks[1]) >= 1
    /\ Len(bulks[1]) < Len(df_raw)

\* The rows of the same symbol that come before row in time.
EarlierRows(row) ==
    { m \in 1..Len(df_raw) :
        /\ df_raw[m].symbol = row.symbol
        /\ df_raw[m].timestamp # NaN
        /\ df_raw[m].timestamp[1] < row.timestamp[1] }

PriorRow(row) ==
    df_raw[CHOOSE m \in EarlierRows(row) :
              \A q \in EarlierRows(row) : df_raw[q].timestamp[1] <= df_raw[m].timestamp[1]]

RelativeChange(from, to) == Ratio(to[1] - from[1], from[1])

\* C9 as stated: the document of a symbol's first chronological row has no
\* volume_change, and every other row's is the relative change of volume from
\* the same symbol's prior row in time order.
C9_VolumeChangeFromPriorRowInTime ==
    MainBulkMade =>
        \A n \in 1..Len(CompleteRows) :
            LET row == CompleteRows[n]
                doc == bulks[1][n]
            IN  IF EarlierRows(row) = {}
                THEN "volume_change" \notin DOMAIN doc
                ELSE (PriorRow(row).volume # NaN /\ PriorRow(row).volume[1] > 0) =>
                        /\ "volume_change" \in DOMAIN doc
                        /\ doc.volume_change = RelativeChange(PriorRow(row).volume, row.volume)

FirstOfSymbol(n) == n = 1 \/ df_raw[n - 1].symbol # df_raw[n].symbol

\* C9 amended: for rows built from a fetched response, the first row of a symbol
\* in response order has no volume_change, and a later row whose own volume and
\* the preceding row's volume (same response, response order) are present, the
\* latter not zero, has the relative change between the two (100 then 150
\* gives 0.5); a document carries volume_change exactly when its row has one.
\* Sample rows carry a drawn volume_change on every row, the first included.
C9_VolumeChangeFromPrecedingFetchedRow ==
    /\ (Assembled /\ ~sampled) =>
          \A n \in 1..Len(df_raw) :
              IF FirstOfSymbol(n)
              THEN df_raw[n].volume_change = NaN
              ELSE /\ ( /\ df_raw[n - 1].volume # NaN
                        /\ df_raw[n].volume # NaN
                        /\ df_raw[n - 1].volume[1] > 0 ) =>
                          df_raw[n].volume_change =
                              RelativeChange(df_raw[n - 1].volume, df_raw[n].volume)
                   /\ (df_raw[n - 1].volume = Num(100) /\ df_raw[n].volume = Num(150)) =>
                          df_raw[n].volume_change = <<1, 2>>
    /\ (Assembled /\ sampled) =>
          \A n \in 1..Len(df_raw) : df_raw[n].volume_change # NaN
    /\ MainBulkMade =>
          \A n \in 1..Len(CompleteRows) :
              IF CompleteRows[n].volume_change = NaN
              THEN "volume_change" \notin DOMAIN bulks[1][n]
              ELSE /\ "volume_change" \in DOMAIN bulks[1][n]
                   /\ bulks[1][n].volume_change = CompleteRows[n].volume_change

C9_Witness ==
    /\ MainBulkMade
    /\ ~sampled
    /\ Len(bulks[1]) = 4
    /\ bulks[1][2].symbol # bulks[1][3].symbol
    /\ "volume_change" \notin DOMAIN bulks[1][3]
    /\ bulks[1][3].volume = Num(100)
    /\ bulks[1][4].volume = Num(150)
    /\ "volume_change" \in DOMAIN bulks[1][4]
    /\ bulks[1][4].volume_change = <<1, 2>>

\* C10 as stated: a row with volume 0 is retained and its document has no
\* price_per_volume field; any other document's price_per_volume is
\* close / volume.
C10_PricePerVolumeIsCloseOverVolume ==
    MainBulkMade =>
        \A n \in 1..Len(CompleteRows) :
            LET row == CompleteRows[n]
                doc == bulks[1][n]
            IN  /\ doc.volume = row.volume
                /\ IF row.volume = Num(0)
                   THEN "price_per_volume" \notin DOMAIN doc
                   ELSE /\ "price_per_volume" \in DOMAIN doc
                        /\ doc.price_per_volume = Ratio(row.close[1], row.volume[1])

\* C10 amended: for rows built from a fetched response, a row with volume 0 is
\* retained and its document has no price_per_volume field, and any other
\* document's price_per_volume is close / volume (150 / 1000000 = 0.00015).
\* Sample rows carry a drawn price_per_volume, whatever their close and volume.
C10_FetchedPricePerVolume ==
    /\ (MainBulkMade /\ ~sampled) =>
          \A n \in 1..Len(CompleteRows) :
              LET row == CompleteRows[n]
                  doc == bulks[1][n]
              IN  /\ doc.volume = row.volume
                  /\ IF row.volume = Num(0)
                     THEN "price_per_volume" \notin DOMAIN doc
                     ELSE /\ "price_per_volume" \in DOMAIN doc
                          /\ doc.price_per_volume = Ratio(row.close[1], row.volume[1])
                  /\ (row.close = Num(150) /\ row.volume = Num(1000000)) =>
                          doc.price_per_volume = <<3, 20000>>
    /\ (MainBulkMade /\ sampled) =>
          \A n \in 1..Len(CompleteRows) :
              /\ "price_per_volume" \in DOMAIN bulks[1][n]
              /\ bulks[1][n].price_per_volume = CompleteRows[n].price_per_volume

C10_Witness ==
    /\ MainBulkMade
    /\ ~sampled
    /\ \E n \in 1..Len(bulks[1]) :
          /\ bulks[1][n].volume = Num(0)
          /\ "price_per_volume" \notin DOMAIN bulks[1][n]
    /\ \E n \in 1..Len(bulks[1]) :
          /\ bulks[1][n].close = Num(150)
          /\ bulks[1][n].volume = Num(1000000)
          /\ bulks[1][n].price_per_volume = <<3, 20000>>

====
